---- MODULE Spec2Model ----
(***************************************************************************)
(* A model of twcc-usage-slack-bot (src/main.py): the squeue output        *)
(* parser, the field formatters, the Slack block builder and the routine   *)
(* that main runs at startup and at 00:00 / 12:00.                         *)
(*                                                                         *)
(* Text is modelled as a sequence of tokens.  A token is one of the        *)
(* delimiters "|" and "\n", the blank " ", or an atom: a non-empty piece   *)
(* of text holding no delimiter and no white space ("JOBID", "alice").     *)
(* A Python str is therefore a Seq(token) and "" is << >>.  A Python dict  *)
(* with str keys is a function whose domain is a set of such sequences;    *)
(* a dict whose key ORDER matters (config maps) is a sequence of           *)
(* <<key, value>> pairs with pairwise distinct keys.                       *)
(*                                                                         *)
(* The emoji / CJK literals of the source are written in ASCII here:       *)
(* the module language takes no other characters.                          *)
(***************************************************************************)
EXTENDS Naturals, Sequences, FiniteSets, TLC

VARIABLES
    config,     \* main.py:127   config = read_json(config_path)
    output,     \* main.py:133   process.stdout.decode() of the last run
    jobs,       \* main.py:133   parse_squeue_output(...) of the last run
    blocks,     \* main.py:137   get_blocks(jobs, config) of the last run
    rendered,   \* main.py:42    value returned by project_formatter
    exc,        \* exception raised by the last applied operation, or None
    posted,     \* main.py:134   was chat_postMessage called in the last run
    delivered,  \* main.py:134   blocks of the last message Slack accepted
    trigger,    \* main.py:140-142  what started the last run of routine
    pc          \* main.py:140-146  where main is

vars ==
    <<config, output, jobs, blocks, rendered, exc, posted, delivered,
      trigger, pc>>

None == "None"

(***************************************************************************)
(* Bounds of the model.                                                    *)
(***************************************************************************)
MaxCells == 6
MaxJobs == 3
MaxAcctLen == 2
MaxRows == 2

(***************************************************************************)
(* Python str primitives on token sequences.                               *)
(***************************************************************************)
Min(a, b) == IF a <= b THEN a ELSE b

\* str.strip() with no argument removes leading and trailing white space.
IsSpace(t) == t \in {" ", "\n"}

RECURSIVE LStrip(_)
LStrip(s) ==
    IF s # << >> /\ IsSpace(Head(s)) THEN LStrip(Tail(s)) ELSE s

RECURSIVE RStrip(_)
RStrip(s) ==
    IF s # << >> /\ IsSpace(s[Len(s)])
    THEN RStrip(SubSeq(s, 1, Len(s) - 1))
    ELSE s

Strip(s) == RStrip(LStrip(s))

\* str.split(sep): the pieces between the occurrences of sep; at least one
\* piece, so "".split(sep) is [""].
RECURSIVE SplitAcc(_, _, _, _)
SplitAcc(s, sep, cur, acc) ==
    IF s = << >> THEN Append(acc, cur)
    ELSE IF Head(s) = sep
         THEN SplitAcc(Tail(s), sep, << >>, Append(acc, cur))
         ELSE SplitAcc(Tail(s), sep, Append(cur, Head(s)), acc)

Split(s, sep) == SplitAcc(s, sep, << >>, << >>)

\* zip(a, b) stops at the shorter of the two.
ZipPadded(a, b) ==
    [i \in 1..Len(a) |-> <<a[i], IF i <= Len(b) THEN b[i] ELSE << >> >>]

Zip(a, b) == [i \in 1..Min(Len(a), Len(b)) |-> <<a[i], b[i]>>]

\* {k: v for k, v in pairs}: a later pair with the same key overrides.
DictSet(d, k, v) ==
    [x \in DOMAIN d \cup {k} |-> IF x = k THEN v ELSE d[x]]

RECURSIVE DictFirstWins(_)
DictFirstWins(pairs) ==
    IF pairs = << >> THEN << >>
    ELSE LET rest == DictFirstWins(Tail(pairs))
         IN  DictSet(rest, Head(pairs)[1], Head(pairs)[2])

RECURSIVE DictOfAcc(_, _)
DictOfAcc(pairs, d) ==
    IF pairs = << >> THEN d
    ELSE DictOfAcc(Tail(pairs), DictSet(d, Head(pairs)[1], Head(pairs)[2]))

DictOf(pairs) == DictOfAcc(pairs, << >>)

(***************************************************************************)
(* parse_squeue_output (main.py:22-30).  It raises nothing on any str:     *)
(* split always returns at least one piece, so lines[0] exists.            *)
(***************************************************************************)
ParseKeepsHeaderLine(text) ==
    LET lines  == Split(Strip(text), "\n")
        header == Split(lines[1], "|")
    IN  [i \in 1..Len(lines) |->
            DictOf(Zip(header, Split(lines[i], "|")))]

parse_squeue_output(text) ==
    LET lines  == Split(Strip(text), "\n")
        header == Split(lines[1], "|")
    IN  [i \in 1..(Len(lines) - 1) |->
            DictOf(Zip(header, Split(lines[i + 1], "|")))]

(***************************************************************************)
(* Inputs of the parser: every text of at most MaxCells cells, a cell      *)
(* being one of CellVals, joined by "|" or "\n".                           *)
(***************************************************************************)
CellVals == {<< >>, <<"a">>, <<"b">>, <<" ">>}
Seps == {"|", "\n"}

RECURSIVE Interleave(_, _, _)
Interleave(v, s, i) ==
    IF i = Len(v) THEN v[i]
    ELSE v[i] \o <<s[i]>> \o Interleave(v, s, i + 1)

IsText(text) ==
    \E n \in 1..MaxCells :
        \E v \in [1..n -> CellVals], s \in [1..(n - 1) -> Seps] :
            text = Interleave(v, s, 1)

NoConfig == [project_map |-> << >>, user_map |-> << >>]

InitParse ==
    /\ IsText(output)
    /\ config = NoConfig
    /\ jobs = << >>
    /\ blocks = << >>
    /\ rendered = << >>
    /\ exc = None
    /\ posted = FALSE
    /\ delivered = << >>
    /\ trigger = None
    /\ pc = "input"

DoParse ==
    /\ pc = "input"
    /\ jobs' = parse_squeue_output(output)
    /\ pc' = "parsed"
    /\ UNCHANGED <<config, output, blocks, rendered, exc, posted, delivered,
                   trigger>>

NextParse == DoParse

SpecParse == InitParse /\ [][NextParse]_vars

(***************************************************************************)
(* Results of operations that may raise.                                   *)
(***************************************************************************)
Ok(v) == [ok |-> TRUE, val |-> v]
Raise(e) == [ok |-> FALSE, exc |-> e]

\* str.upper(), token by token.  Tokens without a lower-case letter map to
\* themselves.
UpperTok(t) ==
    CASE t = "a" -> "A"
      [] t = "b" -> "B"
      [] t = "phys01" -> "PHYS01"
      [] t = "Phys01" -> "PHYS01"
      [] t = "unknown01" -> "UNKNOWN01"
      [] t = "alice" -> "ALICE"
      [] t = "bob" -> "BOB"
      [] t = "build" -> "BUILD"
      [] OTHER -> t

UpperNoop(s) == s

Upper(s) == [i \in DOMAIN s |-> UpperTok(s[i])]

\* A config map (a JSON object) is a sequence of <<key, value>> pairs in
\* the file's order, with pairwise distinct keys.
MapHas(m, k) == \E i \in DOMAIN m : m[i][1] = k
MapGet(m, k) == m[CHOOSE i \in DOMAIN m : m[i][1] = k][2]

(***************************************************************************)
(* get_formatters (main.py:32-63).  Display literals, in ASCII.            *)
(***************************************************************************)
Colon == ":"
JobIdLabel == "[id] Job ID"
JobNameLabel == "[tools] Job name"
PartitionLabel == "[anchor] Partition name"
NodesLabel == "[desktop] Node count"
StartTimeLabel == "[stopwatch] Start time"
TimeLabel == "[hourglass] Elapsed time"
ProjectLabel == "[scroll] Project ID"
UserLabel == "[zany] User ID"

F_JOBID == <<"JOBID">>
F_NAME == <<"NAME">>
F_PARTITION == <<"PARTITION">>
F_NODES == <<"NODES">>
F_START_TIME == <<"START_TIME">>
F_TIME == <<"TIME">>
F_ACCOUNT == <<"ACCOUNT">>
F_USER == <<"USER">>

\* lambda j: f'{display_name}:{j[field_name]}'; j[field_name] raises
\* KeyError when the record has no such key.
SimpleFormatterOmits(display_name, field_name, j) ==
    IF field_name \in DOMAIN j
    THEN Ok(<<display_name, Colon>> \o j[field_name])
    ELSE Ok(<<display_name, Colon>>)

get_simple_formmatter(display_name, field_name, j) ==
    IF field_name \in DOMAIN j
    THEN Ok(<<display_name, Colon>> \o j[field_name])
    ELSE Raise("KeyError")

ProjectFormatterExactKeys(cfg, job) ==
    IF F_ACCOUNT \notin DOMAIN job THEN Raise("KeyError")
    ELSE LET x == Upper(job[F_ACCOUNT])
         IN  IF MapHas(cfg.project_map, x)
             THEN Ok(<<ProjectLabel, Colon>> \o x \o <<"(">>
                        \o MapGet(cfg.project_map, x) \o <<")">>)
             ELSE Ok(<<ProjectLabel, Colon>> \o x)

project_formatter(cfg, job) ==
    LET project_map ==
            DictOf([i \in DOMAIN cfg.project_map |->
                      <<Upper(cfg.project_map[i][1]), cfg.project_map[i][2]>>])
    IN  IF F_ACCOUNT \notin DOMAIN job THEN Raise("KeyError")
        ELSE LET x == Upper(job[F_ACCOUNT])
             IN  IF x \in DOMAIN project_map
                 THEN Ok(<<ProjectLabel, Colon>> \o x \o <<"(">>
                            \o project_map[x] \o <<")">>)
                 ELSE Ok(<<ProjectLabel, Colon>> \o x)

user_formatter(cfg, job) ==
    LET user_map == cfg.user_map
    IN  IF F_USER \notin DOMAIN job THEN Raise("KeyError")
        ELSE LET x == job[F_USER]
             IN  IF MapHas(user_map, x)
                 THEN Ok(<<UserLabel, Colon>> \o x \o <<"(">>
                            \o MapGet(user_map, x) \o <<")">>)
                 ELSE Ok(<<UserLabel, Colon>> \o x)

\* The list of formatters, in the order of main.py:52-61.
get_formatters ==
    << [kind |-> "simple", display_name |-> JobIdLabel, field_name |-> F_JOBID],
       [kind |-> "simple", display_name |-> JobNameLabel, field_name |-> F_NAME],
       [kind |-> "simple", display_name |-> PartitionLabel,
        field_name |-> F_PARTITION],
       [kind |-> "simple", display_name |-> NodesLabel, field_name |-> F_NODES],
       [kind |-> "simple", display_name |-> StartTimeLabel,
        field_name |-> F_START_TIME],
       [kind |-> "simple", display_name |-> TimeLabel, field_name |-> F_TIME],
       [kind |-> "project"],
       [kind |-> "user"] >>

\* formatter(job), for one entry of the list.
CallFormatter(f, cfg, job) ==
    CASE f.kind = "simple" ->
            get_simple_formmatter(f.display_name, f.field_name, job)
      [] f.kind = "project" -> project_formatter(cfg, job)
      [] f.kind = "user" -> user_formatter(cfg, job)

(***************************************************************************)
(* Inputs of project_formatter: an account spelled over AcctAlphabet with  *)
(* at most MaxAcctLen tokens, and a project_map of at most two entries     *)
(* whose keys are such spellings.  The formatter is applied to the account *)
(* as given, to its upper-case and to its lower-case spelling.             *)
(***************************************************************************)
AcctAlphabet == {"a", "A", "1"}

\* The upper-case and the lower-case spelling of an account over
\* AcctAlphabet, written out letter by letter.
LowerTok(t) == IF t = "A" THEN "a" ELSE t
AllUpper(x) == [i \in DOMAIN x |-> IF x[i] = "a" THEN "A" ELSE x[i]]
AllLower(x) == [i \in DOMAIN x |-> LowerTok(x[i])]

L1 == <<"Physics">>
L2 == <<"Chemistry">>

InitProject ==
    /\ \E x \in UNION {[1..n -> AcctAlphabet] : n \in 0..MaxAcctLen} :
         jobs = << (F_ACCOUNT :> x), (F_ACCOUNT :> AllUpper(x)),
                   (F_ACCOUNT :> AllLower(x)) >>
    /\ \E k1, k2 \in UNION {[1..n -> AcctAlphabet] : n \in 0..MaxAcctLen} :
         \E size \in 0..2 :
            /\ size = 2 => k1 # k2
            /\ config = [project_map |->
                            SubSeq(<< <<k1, L1>>, <<k2, L2>> >>, 1, size),
                         user_map |-> << >>]
    /\ output = << >>
    /\ blocks = << >>
    /\ rendered = << >>
    /\ exc = None
    /\ posted = FALSE
    /\ delivered = << >>
    /\ trigger = None
    /\ pc = "input"

DoProject ==
    /\ pc = "input"
    /\ rendered' = [i \in DOMAIN jobs |-> project_formatter(config, jobs[i])]
    /\ pc' = "rendered"
    /\ UNCHANGED <<config, output, jobs, blocks, exc, posted, delivered,
                   trigger>>

NextProject == DoProject

SpecProject == InitProject /\ [][NextProject]_vars

(***************************************************************************)
(* get_blocks (main.py:66-122).                                            *)
(***************************************************************************)
Title == "[clipboard] TWCC HPC job routine check"
\* time.strftime('%Y/%m/%d %H:%M:%S'): the wall clock, formatted.
Now == "YYYY/MM/DD HH:MM:SS"
Unnamed == "_unnamed_"

HeaderBlock ==
    [type |-> "header",
     text |-> [type |-> "plain_text", text |-> <<Title>>, emoji |-> TRUE]]

TimeBlock ==
    [type |-> "section",
     text |-> [type |-> "mrkdwn",
               text |-> <<"[watch] Check time", Colon, " *", Now, "*">>]]

Divider == [type |-> "divider"]

UserBlock(user) ==
    [type |-> "section",
     text |-> [type |-> "mrkdwn",
               text |-> <<"[zany] *">> \o user
                          \o <<"* has the following jobs running", Colon>>]]

TitleBlock(name) ==
    [type |-> "section",
     text |-> [type |-> "mrkdwn",
               text |-> <<"[tools] *">> \o name \o <<"*">>]]

FieldsBlock(texts) ==
    [type |-> "section",
     fields |-> [i \in DOMAIN texts |->
                   [type |-> "plain_text", text |-> texts[i], emoji |-> TRUE]]]

\* itertools.groupby(jobs, key=lambda x: x['USER']): one <<key, group>> per
\* maximal run of consecutive jobs with equal keys.  The key function raises
\* KeyError on a job without 'USER'.
RECURSIVE GroupByBuckets(_)
GroupByBuckets(js) ==
    IF \E i \in DOMAIN js : F_USER \notin DOMAIN js[i] THEN Raise("KeyError")
    ELSE IF js = << >> THEN Ok(<< >>)
    ELSE LET u == js[1][F_USER]
             mine == SelectSeq(js, LAMBDA j : j[F_USER] = u)
             rest == SelectSeq(js, LAMBDA j : j[F_USER] # u)
         IN  Ok(<< [key |-> u, group |-> mine] >> \o GroupByBuckets(rest).val)

RECURSIVE GroupByAcc(_, _)
GroupByAcc(js, acc) ==
    IF js = << >> THEN Ok(acc)
    ELSE IF F_USER \notin DOMAIN Head(js) THEN Raise("KeyError")
    ELSE LET k == Head(js)[F_USER]
             n == Len(acc)
         IN  IF n > 0 /\ acc[n].key = k
             THEN GroupByAcc(Tail(js),
                     [acc EXCEPT ![n].group = Append(@, Head(js))])
             ELSE GroupByAcc(Tail(js),
                     Append(acc, [key |-> k, group |-> <<Head(js)>>]))

GroupBy(js) == GroupByAcc(js, << >>)

\* [formatter(job) for formatter in formatters]: the first formatter that
\* raises ends the comprehension.
RECURSIVE FieldTexts(_, _, _, _)
FieldTexts(fs, cfg, job, acc) ==
    IF fs = << >> THEN Ok(acc)
    ELSE LET r == CallFormatter(Head(fs), cfg, job)
         IN  IF r.ok THEN FieldTexts(Tail(fs), cfg, job, Append(acc, r.val))
             ELSE r

\* main.py:102-119: the two blocks appended for one job.
JobBlocksSkipUnnamed(cfg, job) ==
    IF F_NAME \notin DOMAIN job THEN Raise("KeyError")
    ELSE IF job[F_NAME] = << >> THEN Ok(<< >>)
    ELSE LET texts == FieldTexts(get_formatters, cfg, job, << >>)
         IN  IF texts.ok
             THEN Ok(<< TitleBlock(job[F_NAME]), FieldsBlock(texts.val) >>)
             ELSE texts

JobBlocks(cfg, job) ==
    IF F_NAME \notin DOMAIN job THEN Raise("KeyError")
    ELSE LET name  == IF job[F_NAME] # << >> THEN job[F_NAME]
                      ELSE <<Unnamed>>
             texts == FieldTexts(get_formatters, cfg, job, << >>)
         IN  IF texts.ok
             THEN Ok(<< TitleBlock(name), FieldsBlock(texts.val) >>)
             ELSE texts

\* main.py:101: for job in job_group.
RECURSIVE GroupJobs(_, _, _)
GroupJobs(cfg, group, acc) ==
    IF group = << >> THEN Ok(acc)
    ELSE LET r == JobBlocks(cfg, Head(group))
         IN  IF r.ok THEN GroupJobs(cfg, Tail(group), acc \o r.val) ELSE r

\* main.py:90-91: the user's display label.
UserDisplay(cfg, user) ==
    IF MapHas(cfg.user_map, user)
    THEN user \o <<"(">> \o MapGet(cfg.user_map, user) \o <<")">>
    ELSE user

\* main.py:89-120: for user, job_group in groupby(...).
RECURSIVE GroupLoopNoDivider(_, _, _)
GroupLoopNoDivider(cfg, groups, acc) ==
    IF groups = << >> THEN Ok(acc)
    ELSE LET g == Head(groups)
             r == GroupJobs(cfg, g.group,
                            Append(acc, UserBlock(UserDisplay(cfg, g.key))))
         IN  IF r.ok
             THEN GroupLoopNoDivider(cfg, Tail(groups), r.val)
             ELSE r

RECURSIVE GroupLoop(_, _, _)
GroupLoop(cfg, groups, acc) ==
    IF groups = << >> THEN Ok(acc)
    ELSE LET g == Head(groups)
             r == GroupJobs(cfg, g.group,
                            Append(acc, UserBlock(UserDisplay(cfg, g.key))))
         IN  IF r.ok
             THEN GroupLoop(cfg, Tail(groups), Append(r.val, Divider))
             ELSE r

get_blocks(js, cfg) ==
    LET groups == GroupBy(js)
    IN  IF groups.ok
        THEN GroupLoop(cfg, groups.val, <<HeaderBlock, TimeBlock, Divider>>)
        ELSE groups

(***************************************************************************)
(* Inputs of get_blocks: at most MaxJobs records, each either carrying     *)
(* every field the formatters read or lacking one of them, and a config    *)
(* with or without entries for the users and accounts that occur.          *)
(***************************************************************************)
Fields ==
    {F_JOBID, F_NAME, F_PARTITION, F_NODES, F_START_TIME, F_TIME,
     F_ACCOUNT, F_USER}

FullJob(name, user, account) ==
    [f \in Fields |->
        CASE f = F_JOBID -> <<"1">>
          [] f = F_NAME -> name
          [] f = F_PARTITION -> <<"gp4d">>
          [] f = F_NODES -> <<"2">>
          [] f = F_START_TIME -> <<"2024-01-01T00", Colon, "00">>
          [] f = F_TIME -> <<"1-02", Colon, "03">>
          [] f = F_ACCOUNT -> account
          [] f = F_USER -> user]

Without(job, f) == [k \in DOMAIN job \ {f} |-> job[k]]

UserVals == {<<"alice">>, <<"bob">>}
NameVals == {<< >>, <<"build">>}
AccountVals == {<<"phys01">>, <<"unknown01">>}

JobRecords ==
    {FullJob(n, u, a) : n \in NameVals, u \in UserVals, a \in AccountVals}
    \cup {Without(FullJob(<<"build">>, <<"alice">>, <<"phys01">>), f) :
            f \in {F_PARTITION, F_USER, F_NAME}}

ProjectMaps ==
    {<< >>, << <<<<"PHYS01">>, <<"Physics">>>> >>,
     << <<<<"phys01">>, <<"Physics">>>> >>}
UserMaps == {<< >>, << <<<<"alice">>, <<"Alice">>>> >>}
Configs == [project_map : ProjectMaps, user_map : UserMaps]

InitBlocks ==
    /\ config \in Configs
    /\ \E n \in 0..MaxJobs : jobs \in [1..n -> JobRecords]
    /\ output = << >>
    /\ blocks = << >>
    /\ rendered = << >>
    /\ exc = None
    /\ posted = FALSE
    /\ delivered = << >>
    /\ trigger = None
    /\ pc = "input"

DoGetBlocks ==
    /\ pc = "input"
    /\ LET r == get_blocks(jobs, config)
       IN  /\ blocks' = IF r.ok THEN r.val ELSE << >>
           /\ exc' = IF r.ok THEN None ELSE r.exc
    /\ pc' = "built"
    /\ UNCHANGED <<config, output, jobs, rendered, posted, delivered,
                   trigger>>

NextBlocks == DoGetBlocks

SpecBlocks == InitBlocks /\ [][NextBlocks]_vars

(***************************************************************************)
(* routine and main (main.py:124-146).                                     *)
(*                                                                         *)
(* routine runs squeue, parses its standard output, builds the blocks and  *)
(* only then calls chat_postMessage (the call's arguments are evaluated    *)
(* first).  Nothing in routine or main catches an exception, and           *)
(* schedule.run_pending does not either: an exception raised in routine    *)
(* leaves main, and the process ends.                                      *)
(***************************************************************************)
\* str.join
RECURSIVE Join(_, _)
Join(parts, sep) ==
    IF parts = << >> THEN << >>
    ELSE IF Len(parts) = 1 THEN parts[1]
    ELSE parts[1] \o <<sep>> \o Join(Tail(parts), sep)

\* What squeue may write: a header line, data lines, a final line break.
HeaderScenario == <<F_JOBID, F_NAME, F_USER, F_ACCOUNT>>
HeaderFull ==
    <<F_JOBID, F_NAME, F_USER, F_ACCOUNT, F_PARTITION, F_NODES,
      F_START_TIME, F_TIME>>
Headers == {HeaderScenario, HeaderFull}

RowOf(header, job) == [i \in DOMAIN header |-> job[header[i]]]

\* The jobs squeue reports: build of alice under phys01, and an unnamed
\* job of bob under unknown01.
JobA == FullJob(<<"build">>, <<"alice">>, <<"phys01">>)
JobB == [FullJob(<< >>, <<"bob">>, <<"unknown01">>) EXCEPT ![F_JOBID] = <<"2">>]

\* The lines squeue prints under a header: one per job, and one irregular
\* line that lacks its last field.
RowsOf(header) ==
    {RowOf(header, JobA), RowOf(header, JobB),
     SubSeq(RowOf(header, JobA), 1, Len(header) - 1)}

TextOf(header, rows) ==
    Join([i \in 1..(Len(rows) + 1) |->
            Join(IF i = 1 THEN header ELSE rows[i - 1], "|")], "\n")
        \o <<"\n">>

Stdouts ==
    {<< >>, <<"\n">>}
    \cup UNION { {TextOf(header, rows) : rows \in [1..n -> RowsOf(header)]} :
                   header \in Headers, n \in 0..MaxRows }

RunConfigs ==
    [project_map : {<< >>, << <<<<"PHYS01">>, <<"Physics">>>> >>},
     user_map : UserMaps]

Init ==
    /\ config \in RunConfigs
    /\ output = << >>
    /\ jobs = << >>
    /\ blocks = << >>
    /\ rendered = << >>
    /\ exc = None
    /\ posted = FALSE
    /\ delivered = << >>
    /\ trigger = None
    /\ pc = "startup"

\* main.py:131-138, started by `by`.  subprocess.run raises OSError when
\* squeue cannot be started; chat_postMessage raises SlackApiError when
\* Slack refuses the message.
routine(by) ==
    /\ trigger' = by
    /\ rendered' = rendered
    /\ config' = config
    /\ \E started \in BOOLEAN :
        IF ~started
        THEN /\ exc' = "OSError"
             /\ output' = << >>
             /\ jobs' = << >>
             /\ blocks' = << >>
             /\ posted' = FALSE
             /\ delivered' = << >>
        ELSE \E text \in Stdouts :
                LET js == parse_squeue_output(text)
                    r  == get_blocks(js, config)
                IN  /\ output' = text
                    /\ jobs' = js
                    /\ IF ~r.ok
                       THEN /\ exc' = r.exc
                            /\ blocks' = << >>
                            /\ posted' = FALSE
                            /\ delivered' = << >>
                       ELSE /\ blocks' = r.val
                            /\ posted' = TRUE
                            /\ \E accepted \in BOOLEAN :
                                 IF accepted
                                 THEN exc' = None /\ delivered' = r.val
                                 ELSE exc' = "SlackApiError"
                                      /\ delivered' = << >>

\* main.py:140: the run at startup; main.py:141-146 follow only when it
\* returns.
Startup ==
    /\ pc = "startup"
    /\ routine("startup")
    /\ pc' = IF exc' = None THEN "loop" ELSE "dead"

\* main.py:141, 144-146: run_pending runs the 00:00 job when it is due.
At0000 ==
    /\ pc = "loop"
    /\ trigger # "00:00"
    /\ routine("00:00")
    /\ pc' = IF exc' = None THEN "loop" ELSE "dead"

\* main.py:142, 144-146: run_pending runs the 12:00 job when it is due.
At1200 ==
    /\ pc = "loop"
    /\ trigger # "12:00"
    /\ routine("12:00")
    /\ pc' = IF exc' = None THEN "loop" ELSE "dead"

Next == Startup \/ At0000 \/ At1200

Spec == Init /\ [][Next]_vars

(***************************************************************************)
(* Reference reading of a text, stated by positions and independent of     *)
(* the Strip / Split / Zip / DictOf above: the body is the text between    *)
(* its first and last non-blank token, a line is what lies between two     *)
(* consecutive "\n" of the body, a field what lies between two             *)
(* consecutive "|" of a line.                                              *)
(***************************************************************************)
SetMin(S) == CHOOSE x \in S : \A y \in S : x <= y
SetMax(S) == CHOOSE x \in S : \A y \in S : y <= x
Nth(S, k) == CHOOSE x \in S : Cardinality({y \in S : y < x}) = k - 1

RefBody(text) ==
    LET ink == {i \in 1..Len(text) : ~IsSpace(text[i])}
    IN  IF ink = {} THEN << >> ELSE SubSeq(text, SetMin(ink), SetMax(ink))

RefPieces(s, sep) ==
    LET at == {i \in 1..Len(s) : s[i] = sep}
        n  == Cardinality(at) + 1
        lo(k) == IF k = 1 THEN 1 ELSE Nth(at, k - 1) + 1
        hi(k) == IF k = n THEN Len(s) ELSE Nth(at, k) - 1
    IN  [k \in 1..n |-> SubSeq(s, lo(k), hi(k))]

\* RefTable(text)[1] is the header's fields, RefTable(text)[r + 1] the
\* fields of data line r.
RefTable(text) ==
    LET ls == RefPieces(RefBody(text), "\n")
    IN  [k \in 1..Len(ls) |-> RefPieces(ls[k], "|")]

Names(hdr, m) == {hdr[i] : i \in 1..m}
LastPos(hdr, m, name) == SetMax({i \in 1..m : hdr[i] = name})
Distinct(hdr) == \A i, j \in 1..Len(hdr) : hdr[i] = hdr[j] => i = j

\* Every data line has as many fields as the header.
WellFormed(T) == \A k \in 2..Len(T) : Len(T[k]) = Len(T[1])

\* C4 as stated: for well-formed input, N records in line order, each with
\* the header's names as keys and, at every header position, the value of
\* the same position of its line.
C4_PositionalValues ==
    LET T == RefTable(output) IN
    (pc = "parsed" /\ WellFormed(T)) =>
        /\ Len(jobs) = Len(T) - 1
        /\ \A r \in 1..Len(jobs) :
            /\ DOMAIN jobs[r] = Names(T[1], Len(T[1]))
            /\ \A i \in 1..Len(T[1]) : jobs[r][T[1][i]] = T[r + 1][i]

\* C4 amended: for well-formed input (read after the surrounding white
\* space is stripped), N records in line order, each with the header's
\* names as keys; a key holds the value at the LAST header position that
\* carries its name, which is the positionally matching value whenever the
\* header's names are pairwise distinct.
C4_LastPositionValues ==
    LET T == RefTable(output) IN
    (pc = "parsed" /\ WellFormed(T)) =>
        /\ Len(jobs) = Len(T) - 1
        /\ \A r \in 1..Len(jobs) :
            /\ DOMAIN jobs[r] = Names(T[1], Len(T[1]))
            /\ \A i \in 1..Len(T[1]) :
                jobs[r][T[1][i]] =
                    T[r + 1][LastPos(T[1], Len(T[1]), T[1][i])]
            /\ Distinct(T[1]) =>
                \A i \in 1..Len(T[1]) : jobs[r][T[1][i]] = T[r + 1][i]

\* A well-formed text with a repeated header name and a line whose values
\* at the two positions differ has been parsed.
C4_Witness ==
    LET T == RefTable(output) IN
    /\ pc = "parsed"
    /\ WellFormed(T)
    /\ Len(T) = 2
    /\ Len(T[1]) = 2
    /\ T[1][1] = T[1][2]
    /\ T[2][1] # T[2][2]
    /\ Len(jobs) = 1

\* C9 as stated: a line shorter than the header gives a record with fewer
\* entries than the header has fields, a longer line a record with extra
\* entries beyond the header's fields.
C9_ExtraEntriesKept ==
    LET T == RefTable(output) IN
    pc = "parsed" =>
        /\ exc = None
        /\ Len(jobs) = Len(T) - 1
        /\ \A r \in 1..Len(jobs) :
            /\ Len(T[r + 1]) < Len(T[1]) =>
                Cardinality(DOMAIN jobs[r]) < Len(T[1])
            /\ Len(T[r + 1]) > Len(T[1]) =>
                \/ Cardinality(DOMAIN jobs[r]) > Len(T[1])
                \/ ~(DOMAIN jobs[r] \subseteq Names(T[1], Len(T[1])))

\* C9 amended: no data line makes the parser raise, whatever its field
\* count.  With h header fields and k line fields the record's keys are
\* the header names of positions 1..min(h, k), each holding the line's value
\* at the last of those positions carrying the name.  A short line is not
\* padded: it gives fewer entries than the header has fields.  A long line
\* is truncated to the header: its surplus values are dropped and the
\* record has exactly the header's field set, with no extra entry.
C9_ZipStopsAtShorter ==
    LET T == RefTable(output) IN
    pc = "parsed" =>
        /\ exc = None
        /\ Len(jobs) = Len(T) - 1
        /\ \A r \in 1..Len(jobs) :
            LET m == Min(Len(T[1]), Len(T[r + 1])) IN
            /\ DOMAIN jobs[r] = Names(T[1], m)
            /\ \A i \in 1..m :
                jobs[r][T[1][i]] = T[r + 1][LastPos(T[1], m, T[1][i])]
            /\ Len(T[r + 1]) < Len(T[1]) =>
                Cardinality(DOMAIN jobs[r]) < Len(T[1])
            /\ Len(T[r + 1]) > Len(T[1]) =>
                DOMAIN jobs[r] = Names(T[1], Len(T[1]))

\* A text with one line shorter and one line longer than its two-name
\* header has been parsed.
C9_Witness ==
    LET T == RefTable(output) IN
    /\ pc = "parsed"
    /\ Len(T) = 3
    /\ Len(T[1]) = 2
    /\ T[1][1] # T[1][2]
    /\ \E r \in 2..3 : Len(T[r]) = 1
    /\ \E r \in 2..3 : Len(T[r]) = 3
    /\ Len(jobs) = 2

(***************************************************************************)
(* project_formatter                                                       *)
(***************************************************************************)
\* The entries of project_map whose key is a spelling of the account.
Spellings(m, x) == {i \in DOMAIN m : AllUpper(m[i][1]) = AllUpper(x)}

\* C5: the account is resolved case-insensitively.  The three spellings of
\* an account (as given, upper-case, lower-case) render alike; the account
\* is found exactly when some key of project_map is a spelling of it,
\* whatever the key's case, and then renders as the upper-cased account
\* followed by (label) (the label of the last such key of the table when
\* several keys spell it), otherwise as the upper-cased account alone, and
\* no lookup raises.
C5_CaseInsensitiveProject ==
    pc = "rendered" =>
        LET m == config.project_map
            x == jobs[1][F_ACCOUNT]
            hit == Spellings(m, x)
        IN  /\ \A i \in DOMAIN rendered : rendered[i].ok
            /\ rendered[2] = rendered[3]
            /\ rendered[1] = rendered[2]
            /\ hit = {} =>
                 rendered[1].val = <<ProjectLabel, Colon>> \o AllUpper(x)
            /\ hit # {} =>
                 rendered[1].val =
                    <<ProjectLabel, Colon>> \o AllUpper(x)
                        \o <<"(">> \o m[SetMax(hit)][2] \o <<")">>

\* A lower-case account has been resolved through an upper-case key, or an
\* upper-case account through a lower-case key.
C5_Witness ==
    /\ pc = "rendered"
    /\ Len(config.project_map) >= 1
    /\ jobs[1][F_ACCOUNT] # << >>
    /\ jobs[2][F_ACCOUNT] # jobs[3][F_ACCOUNT]
    /\ config.project_map[1][1] # jobs[1][F_ACCOUNT]
    /\ Spellings(config.project_map, jobs[1][F_ACCOUNT]) = {1}
    /\ rendered[1].val =
         <<ProjectLabel, Colon>> \o jobs[2][F_ACCOUNT]
            \o <<"(">> \o L1 \o <<")">>

(***************************************************************************)
(* get_blocks                                                              *)
(***************************************************************************)
IsUserBlock(b) ==
    b.type = "section" /\ "text" \in DOMAIN b /\ b.text.text[1] = "[zany] *"
IsTitleBlock(b) ==
    b.type = "section" /\ "text" \in DOMAIN b /\ b.text.text[1] = "[tools] *"
IsFieldsBlock(b) == b.type = "section" /\ "fields" \in DOMAIN b
IsDivider(b) == b.type = "divider"

UserAt == {p \in 4..Len(blocks) : IsUserBlock(blocks[p])}
TitleAt == {p \in 4..Len(blocks) : IsTitleBlock(blocks[p])}
FieldsAt == {p \in 4..Len(blocks) : IsFieldsBlock(blocks[p])}
DividerAt == {p \in 4..Len(blocks) : IsDivider(blocks[p])}

\* The UserGroup (counted from 1) that holds the k-th Job node.
GroupOf(k) == Cardinality({p \in UserAt : p < Nth(TitleAt, k)})

\* The run of equal USER values (counted from 1) that record k lies in.
RunOf(k) ==
    1 + Cardinality({j \in 2..k : jobs[j][F_USER] # jobs[j - 1][F_USER]})

RefUserLabel(u) ==
    LET hits == {i \in DOMAIN config.user_map : config.user_map[i][1] = u}
    IN  IF hits = {} THEN u
        ELSE u \o <<"(">> \o config.user_map[SetMin(hits)][2] \o <<")">>

AllFull == \A i \in DOMAIN jobs : Fields \subseteq DOMAIN jobs[i]

\* C1: grouping is contiguous run-length grouping on USER.  Record k's Job
\* node lies in the UserGroup of its run: adjacent records with equal USER
\* share a group, a group starts exactly where USER differs from the
\* preceding record's, and runs of one user separated by another user are
\* distinct groups, each labelled with its own user.
C1_ContiguousGrouping ==
    (pc = "built" /\ exc = None) =>
        /\ Cardinality(TitleAt) = Len(jobs)
        /\ Cardinality(UserAt) = IF jobs = << >> THEN 0 ELSE RunOf(Len(jobs))
        /\ \A k \in 1..Len(jobs) :
            /\ GroupOf(k) = RunOf(k)
            /\ blocks[Nth(UserAt, GroupOf(k))] =
                 UserBlock(RefUserLabel(jobs[k][F_USER]))
        /\ \A k \in 1..(Len(jobs) - 1) :
            (GroupOf(k) = GroupOf(k + 1))
                <=> (jobs[k][F_USER] = jobs[k + 1][F_USER])

\* Records of alice, bob, alice in that order have been built into three
\* groups.
C1_Witness ==
    /\ pc = "built"
    /\ exc = None
    /\ Len(jobs) = 3
    /\ jobs[1][F_USER] = <<"alice">>
    /\ jobs[2][F_USER] = <<"bob">>
    /\ jobs[3][F_USER] = <<"alice">>
    /\ Cardinality(UserAt) = 3

\* C2: no filtering.  When every record carries all the fields read,
\* get_blocks raises nothing and record k gives exactly one Job node: the
\* k-th title section (its NAME, or the placeholder when NAME is empty),
\* immediately followed by its field-list section of one text per
\* formatter, inside one UserGroup; so there are as many Job nodes as
\* records.
C2_NoFiltering ==
    (pc = "built" /\ AllFull) =>
        /\ exc = None
        /\ Cardinality(TitleAt) = Len(jobs)
        /\ Cardinality(FieldsAt) = Len(jobs)
        /\ \A k \in 1..Len(jobs) :
            LET t == Nth(TitleAt, k) IN
            /\ blocks[t] =
                 TitleBlock(IF jobs[k][F_NAME] = << >> THEN <<Unnamed>>
                            ELSE jobs[k][F_NAME])
            /\ t + 1 \in FieldsAt
            /\ Len(blocks[t + 1].fields) = Len(get_formatters)
            /\ blocks[t + 1].fields[2].text =
                 <<JobNameLabel, Colon>> \o jobs[k][F_NAME]
            /\ Cardinality({p \in UserAt : p < t
                              /\ \A q \in p..t : q \notin DividerAt}) = 1

\* Three complete records, one of them without a name, have been built.
C2_Witness ==
    /\ pc = "built"
    /\ AllFull
    /\ Len(jobs) = 3
    /\ \E k \in 1..3 : jobs[k][F_NAME] = << >>
    /\ \E k \in 1..3 : jobs[k][F_NAME] # << >>
    /\ Cardinality(TitleAt) = 3

\* C3: the report is the Header node (title block and timestamp section),
\* a Divider, then per UserGroup a user-label section, its Job nodes (a
\* title section followed by its field list each) and a Divider; with no
\* record it is the Header node and one Divider only.
C3_ReportLayout ==
    (pc = "built" /\ exc = None) =>
        /\ Len(blocks) >= 3
        /\ blocks[1] = HeaderBlock
        /\ blocks[2] = TimeBlock
        /\ blocks[3] = Divider
        /\ jobs = << >> => Len(blocks) = 3
        /\ jobs # << >> => 4 \in UserAt
        /\ blocks[Len(blocks)] = Divider
        /\ \A p \in 4..Len(blocks) :
            /\ Cardinality({S \in {UserAt, TitleAt, FieldsAt, DividerAt} :
                              p \in S}) = 1
            /\ p \in UserAt => (p - 1 = 3 \/ p - 1 \in DividerAt)
                                /\ p + 1 \in TitleAt
            /\ p \in TitleAt => (p - 1 \in UserAt \/ p - 1 \in FieldsAt)
                                 /\ p + 1 \in FieldsAt
            /\ p \in FieldsAt => p - 1 \in TitleAt
                                  /\ (p + 1 \in TitleAt \/ p + 1 \in DividerAt)
            /\ p \in DividerAt => p - 1 \in FieldsAt
                                   /\ (p = Len(blocks) \/ p + 1 \in UserAt)

\* A report of two groups, one of them with two jobs, has been built.
C3_Witness ==
    /\ pc = "built"
    /\ exc = None
    /\ Len(jobs) = 3
    /\ Cardinality(UserAt) = 2
    /\ Len(blocks) = 3 + 2 * 2 + 3 * 2

(***************************************************************************)
(* routine and main                                                        *)
(***************************************************************************)
\* routine has run and squeue's output was read.
RanOn(T) == trigger # None /\ exc # "OSError" /\ T = RefTable(output)

OneConsistentRow(T, header) ==
    Len(T) = 2 /\ T[1] = header /\ Len(T[2]) = Len(header)

\* The value of a row of T under a header name.
Cell(T, name) == T[2][SetMin({i \in DOMAIN T[1] : T[1][i] = name})]

ScenarioUpper(account) ==
    IF account = <<"phys01">> THEN <<"PHYS01">> ELSE <<"UNKNOWN01">>

RefProjectText(account) ==
    LET a == ScenarioUpper(account)
        hits == {i \in DOMAIN config.project_map :
                    config.project_map[i][1] = a}
    IN  IF hits = {} THEN <<ProjectLabel, Colon>> \o a
        ELSE <<ProjectLabel, Colon>> \o a \o <<"(">>
                \o config.project_map[SetMin(hits)][2] \o <<")">>

\* One UserGroup labelled with the row's user, holding one Job node titled
\* with the row's NAME (or the placeholder), whose field list holds the
\* project field rendered from ACCOUNT.
ScenarioReport(T) ==
    /\ exc # "KeyError"
    /\ Len(blocks) = 7
    /\ UserAt = {4}
    /\ blocks[4] = UserBlock(RefUserLabel(Cell(T, F_USER)))
    /\ TitleAt = {5}
    /\ blocks[5] =
         TitleBlock(IF Cell(T, F_NAME) = << >> THEN <<Unnamed>>
                    ELSE Cell(T, F_NAME))
    /\ FieldsAt = {6}
    /\ \E i \in DOMAIN blocks[6].fields :
         blocks[6].fields[i].text = RefProjectText(Cell(T, F_ACCOUNT))

\* C6 as stated: with the header JOBID|NAME|USER|ACCOUNT and one consistent
\* row, parsing and building complete without error and give the report
\* of one UserGroup and one Job node.
C6_ScenarioHeaderBuilds ==
    \A T \in {RefTable(output)} :
        (RanOn(T) /\ OneConsistentRow(T, HeaderScenario)) => ScenarioReport(T)

\* C6 amended: with the header JOBID|NAME|USER|ACCOUNT alone, get_blocks
\* raises KeyError (the formatters also read PARTITION, NODES, START_TIME
\* and TIME) and nothing is built or posted.  With a header that carries
\* those four fields as well and one consistent row, parsing and building
\* complete without error and give one UserGroup labelled with the user
\* ((label) appended only for a user of user_map) holding one Job node
\* titled with NAME, or with the placeholder when NAME is empty, whose
\* field list holds the project field rendered from ACCOUNT.
C6_FullHeaderBuilds ==
    \A T \in {RefTable(output)} :
        /\ (RanOn(T) /\ OneConsistentRow(T, HeaderScenario)) =>
              exc = "KeyError" /\ blocks = << >> /\ ~posted
        /\ (RanOn(T) /\ OneConsistentRow(T, HeaderFull)) => ScenarioReport(T)

\* The row 2||bob|unknown01 (completed with the other four fields) has been
\* built under the full header, and was posted.
C6_Witness ==
    \E T \in {RefTable(output)} :
        /\ RanOn(T)
        /\ OneConsistentRow(T, HeaderFull)
        /\ Cell(T, F_NAME) = << >>
        /\ Cell(T, F_USER) = <<"bob">>
        /\ Cell(T, F_ACCOUNT) = <<"unknown01">>
        /\ posted
        /\ blocks[5] = TitleBlock(<<Unnamed>>)
        /\ blocks[6].fields[7].text = <<ProjectLabel, Colon, "UNKNOWN01">>

\* Some parsed record lacks a field that the grouping key, the title or a
\* formatter reads.
SomeFieldMissing == \E i \in DOMAIN jobs : ~(Fields \subseteq DOMAIN jobs[i])

\* C7: when a record lacks a field that is read, building the report
\* raises KeyError, no report (not even a partial one) results, and
\* chat_postMessage is not called in that run.
C7_MissingFieldNoMessage ==
    (trigger # None /\ exc # "OSError" /\ SomeFieldMissing) =>
        /\ exc = "KeyError"
        /\ blocks = << >>
        /\ ~posted
        /\ delivered = << >>

\* A run has read, under the full header, a complete row followed by a row
\* that lacks its last field.
C7_Witness ==
    \E T \in {RefTable(output)} :
        /\ RanOn(T)
        /\ T[1] = HeaderFull
        /\ Len(T) = 3
        /\ Len(T[2]) = Len(HeaderFull)
        /\ Len(T[3]) = Len(HeaderFull) - 1
        /\ SomeFieldMissing
        /\ exc = "KeyError"

\* C8 as stated: on empty or blank output the parser raises, and no report
\* is built or posted in that run.
C8_EmptyInputRaises ==
    (trigger # None /\ exc # "OSError" /\ RefBody(output) = << >>) =>
        /\ exc \notin {None, "SlackApiError"}
        /\ blocks = << >>
        /\ ~posted

\* C8 amended: on empty or blank output the parser raises nothing: it
\* reads one header with the single empty name and returns no record, and
\* the run builds and posts the report of the Header node and one Divider,
\* as it does for header-only output.
C8_EmptyInputHeaderOnlyReport ==
    (trigger # None /\ exc # "OSError" /\ RefBody(output) = << >>) =>
        /\ jobs = << >>
        /\ exc # "KeyError"
        /\ blocks = <<HeaderBlock, TimeBlock, Divider>>
        /\ posted
        /\ exc = None => delivered = blocks

\* A run on blank output has posted its report.
C8_Witness ==
    /\ trigger # None
    /\ exc = None
    /\ output = <<"\n">>
    /\ posted
    /\ delivered = <<HeaderBlock, TimeBlock, Divider>>

\* C10: after a run of routine that failed, main is still in its loop and
\* the next scheduled cycle can run routine.
C10_NextCycleStillRuns ==
    (trigger # None /\ exc # None) =>
        /\ pc = "loop"
        /\ ENABLED (At0000 \/ At1200)

====
